---- MODULE Spec2Model ----
(***************************************************************************)
(* Model of the MiddleTruncate component                                   *)
(* (js_modules/dagit/packages/ui/src/components/MiddleTruncate.tsx).       *)
(*                                                                         *)
(* A text is a sequence of characters over Alphabet; the ellipsis is one   *)
(* more character.  The component keeps the text prop, the target style    *)
(* (font and width, or null), and the displayed string `truncated`.  The   *)
(* effect of useFixedSpan runs a binary search over the truncation depth,  *)
(* measuring candidates with the canvas measurement of the stored font.    *)
(***************************************************************************)
EXTENDS Integers, Sequences, FiniteSets, TLC

\* ---- bounds of the model ----
MaxLen == 6        \* longest text mounted in the search specification
MaxPropLen == 4    \* longest text prop in the lifecycle specification
MaxWidth == 8      \* widest content rect in the search specification
MaxPropWidth == 4  \* widest content rect in the lifecycle specification

Alphabet == {"a", "b"}
Ellipsis == "..."
Null == [isNull |-> TRUE]
NoCopy == <<"nocopy">>
NoPrev == [isNone |-> TRUE]

SeqsUpTo(n) == UNION {[1..k -> Alphabet] : k \in 0..n}
Texts == SeqsUpTo(MaxLen)
\* the text props of the lifecycle specification are runs of one character
PropTexts == {[i \in 1..k |-> "a"] : k \in 0..MaxPropLen}
Widths == 0..MaxWidth
PropWidths == 0..MaxPropWidth

\* A font is its metrics: the width of the ellipsis glyph and the width its
\* "ab" ligature saves.  A saving of 0 gives an additive, monotone oracle; a
\* saving of 2 makes some deeper candidates narrower than shallower ones.
EllWidths == {1, 2}
LigSavings == {0, 2}
Fonts == [ew : EllWidths, lig : LigSavings]
PropFonts == [ew : EllWidths, lig : {0}]

Min(a, b) == IF a < b THEN a ELSE b
Max(a, b) == IF a > b THEN a ELSE b

\* ---- the measurement oracle: ctx.measureText(s).width under ctx.font ----
CharWidth(c, font) ==
    IF c = Ellipsis THEN font.ew ELSE IF c = "a" THEN 1 ELSE 2

RECURSIVE SumWidths(_, _)
SumWidths(s, font) ==
    IF s = << >> THEN 0
    ELSE CharWidth(Head(s), font) + SumWidths(Tail(s), font)

Ligatures(s) ==
    Cardinality({i \in 1..(Len(s) - 1) : s[i] = "a" /\ s[i + 1] = "b"})

Measure(s, font) == SumWidths(s, font) - font.lig * Ligatures(s)

\* ---- String.prototype.slice as the component uses it ----
\* text.slice(0, n) with n >= 0
SliceTo(t, n) == SubSeq(t, 1, Min(n, Len(t)))

\* text.slice(s): a negative s counts from the end, and -0 is 0
SliceFrom(t, s) ==
    LET from == IF s < 0 THEN Max(Len(t) + s, 0) ELSE Min(s, Len(t))
    IN  SubSeq(t, from + 1, Len(t))

\* `${text.slice(0, k)}…${text.slice(-k)}`
Candidate(t, k) == SliceTo(t, k) \o <<Ellipsis>> \o SliceFrom(t, 0 - k)

Half(t) == Len(t) \div 2

Mid(s, e) == (s + e) \div 2

\* the comparison of the search with its operands swapped
FitsReversed(measuredWidth, targetWidth) == targetWidth < measuredWidth

Fits(measuredWidth, targetWidth) == measuredWidth < targetWidth

NextStart(mid) == mid + 1

\* the upper mark moved onto the measured depth instead of below it
NextEndKeepsMid(mid) == mid

NextEnd(mid) == mid - 1

\* a display built from the depth after the final one
ResultOneDeeper(t, e) == IF e >= Half(t) THEN t ELSE Candidate(t, e + 1)

\* the argument of setTruncated
Result(t, e) == IF e >= Half(t) THEN t ELSE Candidate(t, e)

\* an updater that reads the live font on every applied resize
NextStyleLiveFont(current, width, liveFont, hasRef) ==
    IF hasRef THEN [font |-> liveFont, width |-> width]
    ELSE IF current # Null THEN [current EXCEPT !.width = width]
    ELSE Null

\* the updater of setTargetStyle in debouncedObserver
NextStyle(current, width, liveFont, hasRef) ==
    IF current # Null THEN [current EXCEPT !.width = width]
    ELSE IF hasRef THEN [font |-> liveFont, width |-> width]
    ELSE Null

\* a handler that copies what the DOM shows
CopyPayloadShown(fullText, shown) == shown

\* the argument of clipboardAPI.writeText in handleCopy
CopyPayload(fullText, shown) == fullText

VARIABLES
    text,             \* props.text
    targetStyle,      \* useState<TargetStyle | null>
    truncated,        \* useState(text) of useFixedSpan: the displayed string
    elWidth,          \* live width of the element's content rect
    elFont,           \* live computed font of the element
    mounted,          \* the layout effect has run
    resizePending,    \* the debounced observer holds an entry not yet applied
    effectPending,    \* the effect of useFixedSpan is scheduled
    pc,               \* position of the effect: "idle" or "loop"
    start, end,       \* locals of the search
    nMeasure,         \* measureText calls of the running evaluation
    clipboard,        \* system clipboard
    defaultPrevented, \* the copy event had preventDefault called
    prev,             \* width and final depth of the previous completed search
    fontAtMount,      \* the font read by the layout effect
    lastOp            \* name of the last handler or step that ran

vars == <<text, targetStyle, truncated, elWidth, elFont, mounted, resizePending,
          effectPending, pc, start, end, nMeasure, clipboard, defaultPrevented,
          prev, fontAtMount, lastOp>>

envVars == <<elWidth, elFont>>
loopVars == <<pc, start, end, nMeasure>>
copyVars == <<clipboard, defaultPrevented>>

Idle == pc = "idle"

\* ---- initial states: after the first render, before any effect ----
InitWith(T, F, W) ==
    /\ text \in T
    /\ targetStyle = Null
    /\ truncated = text
    /\ elWidth \in W
    /\ elFont \in F
    /\ mounted = FALSE
    /\ resizePending = FALSE
    /\ effectPending = TRUE
    /\ pc = "idle"
    /\ start = 0
    /\ end = 0
    /\ nMeasure = 0
    /\ clipboard = NoCopy
    /\ defaultPrevented = FALSE
    /\ prev = NoPrev
    /\ fontAtMount = Null
    /\ lastOp = "init"

Init == InitWith(PropTexts, PropFonts, PropWidths)

InitSearch == InitWith(Texts, Fonts, Widths)

\* ---- useLayoutEffect of MiddleTruncate ----
\* The effect of the first render closes over targetStyle = null, so it is
\* taken before the style stored here becomes visible to an effect.
Mount ==
    /\ ~mounted /\ Idle /\ ~effectPending
    /\ mounted' = TRUE
    /\ targetStyle' = [font |-> elFont, width |-> elWidth]
    /\ fontAtMount' = elFont
    /\ effectPending' = TRUE
    /\ lastOp' = "mount"
    /\ UNCHANGED <<text, truncated, resizePending, prev>>
    /\ UNCHANGED <<envVars, loopVars, copyVars>>

\* Handlers run one at a time, and the scheduled effect of a render is flushed
\* before the next event is handled: every event waits for Idle and for
\* effectPending to clear.

\* ---- the parent renders the component with another text prop ----
TextChange ==
    /\ mounted /\ Idle /\ ~effectPending
    /\ \E t \in PropTexts \ {text} : text' = t
    /\ effectPending' = TRUE
    /\ prev' = NoPrev
    /\ lastOp' = "textChange"
    /\ UNCHANGED <<targetStyle, truncated, mounted, resizePending, fontAtMount>>
    /\ UNCHANGED <<envVars, loopVars, copyVars>>

\* ---- the element's computed font changes (a web font finishes loading) ----
FontChange ==
    /\ mounted /\ Idle /\ ~effectPending
    /\ \E f \in PropFonts \ {elFont} : elFont' = f
    /\ lastOp' = "fontChange"
    /\ UNCHANGED <<text, targetStyle, truncated, elWidth, mounted, resizePending,
                   effectPending, prev, fontAtMount>>
    /\ UNCHANGED <<loopVars, copyVars>>

\* ---- the resize observer reports a content rect; debounce keeps the last ----
ResizeWithin(W) ==
    /\ mounted /\ Idle /\ ~effectPending
    /\ \E w \in W : elWidth' = w
    /\ resizePending' = TRUE
    /\ lastOp' = "elementResize"
    /\ UNCHANGED <<text, targetStyle, truncated, elFont, mounted, effectPending,
                   prev, fontAtMount>>
    /\ UNCHANGED <<loopVars, copyVars>>

ElementResize == ResizeWithin(PropWidths)

ElementResizeSearch == ResizeWithin(Widths)

\* ---- the debounced callback fires: setTargetStyle(updater) ----
ApplyResize ==
    /\ resizePending /\ Idle /\ ~effectPending
    /\ LET next == NextStyle(targetStyle, elWidth, elFont, mounted)
       IN  /\ targetStyle' = next
           /\ prev' = IF targetStyle # Null /\ next # Null
                         /\ next.font = targetStyle.font
                      THEN prev ELSE NoPrev
    /\ resizePending' = FALSE
    /\ effectPending' = TRUE
    /\ lastOp' = "applyResize"
    /\ UNCHANGED <<text, truncated, mounted, fontAtMount>>
    /\ UNCHANGED <<envVars, loopVars, copyVars>>

\* ---- the effect of useFixedSpan: its three early returns ----
EffectNoStyle ==
    /\ effectPending /\ Idle
    /\ targetStyle = Null
    /\ effectPending' = FALSE
    /\ lastOp' = "effectNoStyle"
    /\ UNCHANGED <<text, targetStyle, truncated, mounted, resizePending, prev,
                   fontAtMount>>
    /\ UNCHANGED <<envVars, loopVars, copyVars>>

EffectNoCtx ==
    /\ effectPending /\ Idle
    /\ targetStyle # Null
    /\ effectPending' = FALSE
    /\ lastOp' = "effectNoCtx"
    /\ UNCHANGED <<text, targetStyle, truncated, mounted, resizePending, prev,
                   fontAtMount>>
    /\ UNCHANGED <<envVars, loopVars, copyVars>>

EffectNoWidth ==
    /\ effectPending /\ Idle
    /\ targetStyle # Null
    /\ targetStyle.width = 0
    /\ effectPending' = FALSE
    /\ lastOp' = "effectNoWidth"
    /\ UNCHANGED <<text, targetStyle, truncated, mounted, resizePending, prev,
                   fontAtMount>>
    /\ UNCHANGED <<envVars, loopVars, copyVars>>

\* ---- the effect of useFixedSpan: the search ----
SearchStart ==
    /\ effectPending /\ Idle
    /\ targetStyle # Null
    /\ targetStyle.width # 0
    /\ effectPending' = FALSE
    /\ pc' = "loop"
    /\ start' = 1
    /\ end' = Half(text)
    /\ nMeasure' = 0
    /\ lastOp' = "searchStart"
    /\ UNCHANGED <<text, targetStyle, truncated, mounted, resizePending, prev,
                   fontAtMount>>
    /\ UNCHANGED <<envVars, copyVars>>

SearchStep ==
    /\ pc = "loop"
    /\ start <= end
    /\ LET mid == Mid(start, end)
           measuredWidth == Measure(Candidate(text, mid), targetStyle.font)
       IN  IF Fits(measuredWidth, targetStyle.width)
           THEN start' = NextStart(mid) /\ end' = end
           ELSE end' = NextEnd(mid) /\ start' = start
    /\ nMeasure' = nMeasure + 1
    /\ lastOp' = "searchStep"
    /\ UNCHANGED <<text, targetStyle, truncated, mounted, resizePending,
                   effectPending, pc, prev, fontAtMount>>
    /\ UNCHANGED <<envVars, copyVars>>

SearchFinish ==
    /\ pc = "loop"
    /\ ~(start <= end)
    /\ truncated' = Result(text, end)
    /\ prev' = [width |-> targetStyle.width, end |-> end]
    /\ pc' = "idle"
    /\ start' = 0
    /\ end' = 0
    /\ nMeasure' = 0
    /\ lastOp' = "searchFinish"
    /\ UNCHANGED <<text, targetStyle, mounted, resizePending, effectPending,
                   fontAtMount>>
    /\ UNCHANGED <<envVars, copyVars>>

\* ---- handleCopy ----
Copy ==
    /\ Idle /\ ~effectPending
    /\ defaultPrevented' = TRUE
    /\ clipboard' = CopyPayload(text, truncated)
    /\ lastOp' = "copy"
    /\ UNCHANGED <<text, targetStyle, truncated, mounted, resizePending,
                   effectPending, prev, fontAtMount>>
    /\ UNCHANGED <<envVars, loopVars>>

Next ==
    \/ Mount
    \/ TextChange
    \/ FontChange
    \/ ElementResize
    \/ ApplyResize
    \/ EffectNoStyle
    \/ EffectNoCtx
    \/ EffectNoWidth
    \/ SearchStart
    \/ SearchStep
    \/ SearchFinish
    \/ Copy

Spec == Init /\ [][Next]_vars

\* the component mounted with one text and one font, resized any number of times
NextSearch ==
    \/ Mount
    \/ ElementResizeSearch
    \/ ApplyResize
    \/ EffectNoStyle
    \/ EffectNoWidth
    \/ SearchStart
    \/ SearchStep
    \/ SearchFinish

SpecSearch == InitSearch /\ [][NextSearch]_vars

\* ---- notions the properties use ----
Searched == lastOp = "searchFinish"

LoopDone == pc = "loop" /\ ~(start <= end)

\* a candidate never gets narrower as the depth grows
Monotone(t, font) ==
    \A k \in 1..(Half(t) - 1) :
        Measure(Candidate(t, k), font) <= Measure(Candidate(t, k + 1), font)

Prefix(t, k) == SubSeq(t, 1, k)
Suffix(t, k) == SubSeq(t, Len(t) - k + 1, Len(t))
MiddleTruncated(t, k) == Prefix(t, k) \o <<Ellipsis>> \o Suffix(t, k)

RECURSIVE Log2Floor(_)
Log2Floor(n) == IF n <= 1 THEN 0 ELSE 1 + Log2Floor(n \div 2)

MaxMeasures(half) == IF half = 0 THEN 0 ELSE Log2Floor(half) + 1

\* C1 as stated: after a search under a monotone oracle, the displayed string measures
\* at or under the target width.
C1_DisplayFitsTarget ==
    (Searched /\ Monotone(text, targetStyle.font))
        => Measure(truncated, targetStyle.font) <= targetStyle.width

\* C1 as amended: after a search that ends at a depth e with 1 <= e < half, the
\* display is the depth-e candidate and measures strictly below the target.
C1_TruncatedCandidateFits ==
    (/\ Searched
     /\ Monotone(text, targetStyle.font)
     /\ 1 <= prev.end
     /\ prev.end < Half(text))
        => /\ truncated = MiddleTruncated(text, prev.end)
           /\ Measure(truncated, targetStyle.font) < targetStyle.width

C1_Witness ==
    /\ Searched
    /\ Monotone(text, targetStyle.font)
    /\ 1 <= prev.end
    /\ prev.end < Half(text)
    /\ truncated = MiddleTruncated(text, prev.end)
    /\ Measure(truncated, targetStyle.font) + 1 = targetStyle.width

\* C2: after a search, a text whose own measured width is at or under the
\* target width is displayed unchanged.
C2_FittingTextUnchanged ==
    (Searched /\ Measure(text, targetStyle.font) <= targetStyle.width)
        => truncated = text

\* C3: after a search under a monotone oracle that displays something other
\* than the text, the display is prefix + ellipsis + suffix of one depth k,
\* measures strictly below the target, and k is maximal.
C3_TruncatedFormMaximal ==
    (Searched /\ Monotone(text, targetStyle.font) /\ truncated # text)
        => \E k \in 0..Half(text) :
              /\ truncated = MiddleTruncated(text, k)
              /\ Measure(truncated, targetStyle.font) < targetStyle.width
              /\ \/ k + 1 > Half(text)
                 \/ Measure(MiddleTruncated(text, k + 1), targetStyle.font)
                        >= targetStyle.width

\* C4: after a search on a text of length >= 2 whose depth-1 candidate does
\* not measure below the target, the display is the ellipsis alone.
C4_EllipsisOnly ==
    (/\ Searched
     /\ Len(text) >= 2
     /\ ~(Measure(MiddleTruncated(text, 1), targetStyle.font) < targetStyle.width))
        => truncated = <<Ellipsis>>

\* C5: once the effects have run, while the target style is null, its width
\* is 0, or no measurement context was obtained, the display is the current
\* full text prop.
C5_FullTextWhileUnmeasurable ==
    (/\ Idle /\ ~effectPending
     /\ \/ targetStyle = Null
        \/ targetStyle.width = 0
        \/ lastOp = "effectNoCtx")
        => truncated = text

\* C6: after a search with a target width equal to the width of the depth-k
\* candidate, 1 <= k < half, the depth k+1 candidate being wider, the display
\* is that depth-k candidate.
C6_EqualWidthFits ==
    Searched =>
        \A k \in 1..(Half(text) - 1) :
            (/\ Measure(MiddleTruncated(text, k), targetStyle.font)
                    = targetStyle.width
             /\ Measure(MiddleTruncated(text, k + 1), targetStyle.font)
                    > targetStyle.width)
                => truncated = MiddleTruncated(text, k)

\* C7: a copy event has its default prevented and leaves the current full
\* text prop on the clipboard, whatever string is displayed.
C7_CopyWritesFullText ==
    lastOp = "copy" => (clipboard = text /\ defaultPrevented)

C7_Witness ==
    /\ lastOp = "copy"
    /\ truncated # text
    /\ Ellipsis \in {truncated[i] : i \in 1..Len(truncated)}
    /\ clipboard = text

\* C8: for one text and one font with a monotone oracle, the final depth of a
\* search is non-decreasing in the target width, and equal widths give equal
\* depths.
C8_DepthMonotoneInWidth ==
    (LoopDone /\ prev # NoPrev /\ Monotone(text, targetStyle.font))
        => /\ prev.width <= targetStyle.width => prev.end <= end
           /\ targetStyle.width <= prev.width => end <= prev.end

C8_Witness ==
    /\ LoopDone
    /\ prev # NoPrev
    /\ Monotone(text, targetStyle.font)
    /\ prev.width < targetStyle.width
    /\ 0 < prev.end
    /\ prev.end < end

\* C9 as stated: after an applied resize, the font of the target style is the
\* element's live computed font.
C9_FontRereadOnResize ==
    lastOp = "applyResize" => targetStyle.font = elFont

\* C9 as amended: an applied resize stores the reported width and keeps the
\* font that the layout effect captured at mount.
C9_FontKeptOnResize ==
    lastOp = "applyResize"
        => /\ targetStyle # Null
           /\ targetStyle.font = fontAtMount
           /\ targetStyle.width = elWidth

C9_Witness ==
    /\ lastOp = "applyResize"
    /\ targetStyle.font # elFont
    /\ targetStyle.font = fontAtMount

\* C10: the search loop keeps 1 <= start <= end + 1 <= half + 1, measures only
\* depths in 1..half, makes at most floor(log2(half)) + 1 measurements (none
\* when half = 0), and every iteration strictly shrinks [start, end].
LoopInv ==
    pc = "loop" =>
        /\ 1 <= start
        /\ start <= end + 1
        /\ end <= Half(text)
        /\ nMeasure <= MaxMeasures(Half(text))
        /\ start <= end => Mid(start, end) \in 1..Half(text)

StepShrinks ==
    lastOp' = "searchStep" => (end' - start') < (end - start)

====
